---- MODULE Spec2Model ----
(***************************************************************************)
(* Model of src/libstd/sys_common/wtf8.rs: the WTF-8 / OMG-WTF-8 owned     *)
(* buffer (Wtf8Buf), the borrowed view (Wtf8), the surrogate codec, the    *)
(* index classifier, slicing, truncation and the UTF-16 conversions.       *)
(*                                                                         *)
(* Bytes are integers 0..255, byte strings are sequences of bytes, 16-bit  *)
(* code units are integers 0..65535.  Option<HighSurrogate> and            *)
(* Option<LowSurrogate> are modelled by their NonZeroU16 layout: 0 is None.*)
(***************************************************************************)
EXTENDS Integers, Sequences, FiniteSets, TLC

VARIABLES bytes,     \* Wtf8Buf.bytes of the owned buffer
          op,        \* name of the operation that acted last
          prev,      \* the owned buffer's bytes before that operation
          other,     \* the Wtf8 view the operation read (argument or receiver)
          args,      \* numeric arguments: <<begin, end>>, <<new_len>>, <<char>>
          res,       \* the bytes of the view a slice operation returned
          wide,      \* the code units given to from_wide
          panicked,  \* TRUE when the operation ended in a panic
          ok,        \* FALSE when the operation returned Err or None
          it,        \* the iterator: ReplaceWith, SplitInternal or SplitNInternal
          wrapped    \* TRUE when slice_unchecked computed end - begin with begin > end

vars == <<bytes, op, prev, other, args, res, wide, panicked, ok, it, wrapped>>

----------------------------------------------------------------------------
(* Bounds of the model.                                                    *)

\* longest owned buffer, in bytes, that a push may produce
MaxLen == 9
\* longest code-unit sequence given to from_wide
MaxWide == 3
\* longest UTF-8 string, in chars, given to from_str, from_string and push_str
MaxStr == 2
\* longest code-unit sequence of a buffer that views are sliced from
MaxSrc == 4
\* longest haystack given to replace_with
MaxHay == 4
\* largest replacement count given to replace_with
MaxCount == 2

----------------------------------------------------------------------------
(* Unsigned integer arithmetic.                                            *)

\* bitwise AND, bit by bit
RECURSIVE AndBits(_, _)
AndBits(a, b) ==
    IF a = 0 \/ b = 0 THEN 0
    ELSE (a % 2) * (b % 2) + 2 * AndBits(a \div 2, b \div 2)

\* the same on 4-bit digits, tabulated
AndNibble == [x \in 0..15 |-> [y \in 0..15 |-> AndBits(x, y)]]

\* bitwise AND (&), four bits at a time
RECURSIVE And(_, _)
And(a, b) ==
    IF a = 0 \/ b = 0 THEN 0
    ELSE AndNibble[a % 16][b % 16] + 16 * And(a \div 16, b \div 16)

Or(a, b) == a + b - And(a, b)

Pow2(n) == 2 ^ n

Shr(a, n) == a \div Pow2(n)

Shl(a, n) == a * Pow2(n)

U8(a) == a % 256

U16(a) == a % 65536

Min(a, b) == IF a < b THEN a ELSE b

\* usize::saturating_sub
SatSub(a, b) == IF a > b THEN a - b ELSE 0

\* s[from+1 .. to] in 0-based half-open Rust notation s[from..to]
Slice(s, from, to) == SubSeq(s, from + 1, to)

----------------------------------------------------------------------------
(* core::char and core::str helpers used by wtf8.rs.                       *)

\* char::encode_utf8
encode_utf8(c) ==
    IF c < \h80 THEN <<c>>
    ELSE IF c < \h800 THEN
        <<Or(And(Shr(c, 6), \h1F), \hC0), Or(And(c, \h3F), \h80)>>
    ELSE IF c < \h10000 THEN
        <<Or(And(Shr(c, 12), \h0F), \hE0),
          Or(And(Shr(c, 6), \h3F), \h80),
          Or(And(c, \h3F), \h80)>>
    ELSE
        <<Or(And(Shr(c, 18), \h07), \hF0),
          Or(And(Shr(c, 12), \h3F), \h80),
          Or(And(Shr(c, 6), \h3F), \h80),
          Or(And(c, \h3F), \h80)>>

\* char::encode_utf16
encode_utf16(c) ==
    IF And(c, \hFFFF) = c THEN <<c>>
    ELSE <<Or(\hD800, Shr(c - \h10000, 10)), Or(\hDC00, And(c - \h10000, \h3FF))>>

\* core::str::next_code_point on a non-empty byte slice: the code point and
\* the number of bytes consumed (a missing continuation byte reads as 0).
ByteOr0(sl, i) == IF i <= Len(sl) THEN sl[i] ELSE 0

next_code_point(sl) ==
    LET x == sl[1]
        init == And(x, \h1F)
        y == ByteOr0(sl, 2)
        z == ByteOr0(sl, 3)
        w == ByteOr0(sl, 4)
        y_z == Or(Shl(And(y, \h3F), 6), And(z, \h3F))
    IN  IF x < 128 THEN [ch |-> x, n |-> 1]
        ELSE IF x < \hE0 THEN
            [ch |-> Or(Shl(init, 6), And(y, \h3F)), n |-> Min(2, Len(sl))]
        ELSE IF x < \hF0 THEN
            [ch |-> Or(Shl(init, 12), y_z), n |-> Min(3, Len(sl))]
        ELSE
            [ch |-> Or(Shl(And(init, 7), 18), Or(Shl(y_z, 6), And(w, \h3F))),
             n |-> Min(4, Len(sl))]

\* char::decode_utf16, collected: a sequence of [ok, v] items, ok = TRUE for
\* a decoded scalar value, ok = FALSE for an unpaired surrogate.
RECURSIVE decode_utf16(_)
decode_utf16(v) ==
    IF v = <<>> THEN <<>>
    ELSE LET u == Head(v) IN
        IF u < \hD800 \/ u > \hDFFF THEN
            <<[ok |-> TRUE, v |-> u]>> \o decode_utf16(Tail(v))
        ELSE IF u >= \hDC00 THEN
            <<[ok |-> FALSE, v |-> u]>> \o decode_utf16(Tail(v))
        ELSE IF Len(v) = 1 THEN
            <<[ok |-> FALSE, v |-> u]>>
        ELSE LET u2 == v[2] IN
            IF u2 < \hDC00 \/ u2 > \hDFFF THEN
                <<[ok |-> FALSE, v |-> u]>> \o decode_utf16(Tail(v))
            ELSE
                <<[ok |-> TRUE,
                   v |-> Or(Shl(u - \hD800, 10), u2 - \hDC00) + \h10000]>>
                \o decode_utf16(Tail(Tail(v)))

----------------------------------------------------------------------------
(* Surrogate codec.                                                        *)

\* HighSurrogate::decode
HighSurrogate_decode(c) == <<\hED, U8(Shr(c, 8)), U8(c)>>

\* LowSurrogate::decode
LowSurrogate_decode(c) == <<\hED, U8(Shr(c, 8)), U8(c)>>

\* decode_surrogate_pair without the UTF-16 offset (+ 0x100) on the high half
decode_surrogate_pair_no_offset(high, low) ==
    LET combined == Or(And(low, \hFFF),
                       Or(And(Shl(high, 12), \h303000), And(Shl(high, 14), \h70F0000)))
    IN  <<Or(U8(Shr(combined, 24)), \hF0),
          Or(U8(Shr(combined, 16)), \h80),
          Or(U8(Shr(combined, 8)), \h80),
          U8(combined)>>

\* decode_surrogate_pair that keeps 8 bits of the low surrogate, not 12
decode_surrogate_pair_low_byte(high, low) ==
    LET lo == low
        hi == high + \h100
        combined == Or(And(lo, \hFF),
                       Or(And(Shl(hi, 12), \h303000), And(Shl(hi, 14), \h70F0000)))
    IN  <<Or(U8(Shr(combined, 24)), \hF0),
          Or(U8(Shr(combined, 16)), \h80),
          Or(U8(Shr(combined, 8)), \h80),
          U8(combined)>>

\* decode_surrogate_pair: the big-endian bytes of
\* (lo & 0xfff) | (hi << 12 & 0x303000) | (hi << 14 & 0x70f0000) | 0xf0808000
decode_surrogate_pair(high, low) ==
    LET lo == low
        hi == high + \h100
        combined == Or(And(lo, \hFFF),
                       Or(And(Shl(hi, 12), \h303000), And(Shl(hi, 14), \h70F0000)))
    IN  <<Or(U8(Shr(combined, 24)), \hF0),
          Or(U8(Shr(combined, 16)), \h80),
          Or(U8(Shr(combined, 8)), \h80),
          U8(combined)>>

\* ThreeByteSeq::new
ThreeByteSeq_new(input) == Shl(input[1], 16) + Shl(input[2], 8) + input[3]

\* self.0 >> 4 & 0x303 | self.0 >> 6 & 0x3c3c
split_repr_bits(w) == Or(And(Shr(w, 4), \h303), And(Shr(w, 6), \h3C3C))

\* the subtraction `... - 0x100` of the split representation goes below 0
split_repr_underflows(w) == w >= \hF00000 /\ split_repr_bits(w) < \h100

\* ThreeByteSeq::to_high_surrogate_from_split_repr_unchecked; the u32
\* subtraction wraps, and `as u16` keeps its low 16 bits
to_high_surrogate_from_split_repr_unchecked(w) ==
    U16(Or(U16(split_repr_bits(w) + 65536 - \h100), \hA080))

\* ThreeByteSeq::to_high_surrogate (0 is None)
to_high_surrogate(w) ==
    IF w >= \hEDA000 /\ w <= \hEDAFFF THEN U16(w)
    ELSE IF w >= \hF00000 THEN to_high_surrogate_from_split_repr_unchecked(w)
    ELSE 0

\* to_low_surrogate that leaves the split form's bits as they are
to_low_surrogate_no_or(w) ==
    IF w >= \hEDB000 /\ w <= \hEDFFFF THEN U16(w)
    ELSE IF w >= \h800000 /\ w <= \hBFFFFF THEN U16(w)
    ELSE 0

\* ThreeByteSeq::to_low_surrogate (0 is None)
to_low_surrogate(w) ==
    IF w >= \hEDB000 /\ w <= \hEDFFFF THEN U16(w)
    ELSE IF w >= \h800000 /\ w <= \hBFFFFF THEN U16(Or(w, \hB000))
    ELSE 0

\* ThreeByteSeq::as_code_unit
as_code_unit(w) ==
    IF w >= \hF00000 THEN
        U16(Or(Or(And(Shr(w, 4), 3), And(Shr(w, 6), \hFC)), And(Shr(w, 8), \h700))
            + \hD7C0)
    ELSE IF w >= \h800000 /\ w <= \hBFFFFF THEN
        U16(Or(Or(And(w, \h3F), And(Shr(w, 2), \h3C0)), \hDC00))
    ELSE
        U16(Or(Or(And(w, \h3F), And(Shr(w, 2), \hFC0)), And(Shr(w, 4), \hF000)))

----------------------------------------------------------------------------
(* IndexType and classify_index.                                           *)

CharBoundary == 0
FourByteSeq1 == 1
FourByteSeq2 == 2
FourByteSeq3 == 3
Interior == 4
OutOfBounds == 5

\* the loop `for offset in min_offset..max_offset` of classify_index: the
\* first offset + 1 whose byte slice[index - offset] is >= 0xf0, else Interior
RECURSIVE classify_scan(_, _, _, _)
classify_scan(slice, index, offset, max_offset) ==
    IF offset >= max_offset THEN Interior
    ELSE IF slice[index - (offset + 1) + 1] >= \hF0 THEN offset + 1
    ELSE classify_scan(slice, index, offset + 1, max_offset)

\* classify_index that looks back 3 bytes for a lead byte wherever the buffer
\* ends (min_offset = 0)
classify_index_no_min(slice, index) ==
    LET len == Len(slice) IN
    IF index = 0 \/ index = len THEN CharBoundary
    ELSE IF index > len THEN OutOfBounds
    ELSE IF slice[index + 1] >= \h80 /\ slice[index + 1] <= \hBF THEN
        classify_scan(slice, index, 0, Min(index, 3))
    ELSE CharBoundary

\* classify_index that takes a continuation byte with no lead byte of a
\* complete 4-byte sequence before it for a boundary
classify_index_tail_boundary(slice, index) ==
    LET len == Len(slice) IN
    IF index = 0 \/ index = len THEN CharBoundary
    ELSE IF index > len THEN OutOfBounds
    ELSE IF slice[index + 1] >= \h80 /\ slice[index + 1] <= \hBF THEN
        LET ty == classify_scan(slice, index, SatSub(index + 3, len), Min(index, 3))
        IN  IF ty = Interior /\ index + 2 >= len THEN CharBoundary ELSE ty
    ELSE CharBoundary

\* classify_index that takes every in-bounds offset for a boundary
classify_index_no_scan(slice, index) ==
    IF index > Len(slice) THEN OutOfBounds ELSE CharBoundary

classify_index(slice, index) ==
    LET len == Len(slice) IN
    IF index = 0 \/ index = len THEN CharBoundary
    ELSE IF index > len THEN OutOfBounds
    ELSE IF slice[index + 1] >= \h80 /\ slice[index + 1] <= \hBF THEN
        classify_scan(slice, index, SatSub(index + 3, len), Min(index, 3))
    ELSE CharBoundary

----------------------------------------------------------------------------
(* Wtf8: the borrowed view.                                                *)

\* Wtf8::next_surrogate: [some, pos, cu]
RECURSIVE next_surrogate(_, _)
next_surrogate(s, pos) ==
    IF pos >= Len(s) THEN [some |-> FALSE, pos |-> 0, cu |-> 0]
    ELSE LET b == s[pos + 1]
             found == [some |-> TRUE, pos |-> pos,
                       cu |-> as_code_unit(ThreeByteSeq_new(Slice(s, pos, Len(s))))]
         IN  IF b <= \h7F THEN next_surrogate(s, pos + 1)
             ELSE IF b <= \hBF THEN found
             ELSE IF b <= \hDF THEN next_surrogate(s, pos + 2)
             ELSE IF b <= \hEF THEN
                 IF b = \hED /\ s[pos + 2] >= \hA0 THEN found
                 ELSE next_surrogate(s, pos + 3)
             ELSE IF Len(s) = pos + 3 THEN found
             ELSE next_surrogate(s, pos + 4)

\* Wtf8::split_off_first_low_surrogate: [sur, rest], sur = 0 is None
split_off_first_low_surrogate(s) ==
    IF Len(s) < 3 THEN [sur |-> 0, rest |-> s]
    ELSE LET r == to_low_surrogate(ThreeByteSeq_new(Slice(s, 0, 3))) IN
         IF r = 0 THEN [sur |-> 0, rest |-> s]
         ELSE [sur |-> r, rest |-> Slice(s, 3, Len(s))]

\* Wtf8::split_off_last_high_surrogate: [sur, rest], sur = 0 is None
split_off_last_high_surrogate(s) ==
    IF Len(s) < 3 THEN [sur |-> 0, rest |-> s]
    ELSE LET e == Len(s) - 3
             r == to_high_surrogate(ThreeByteSeq_new(Slice(s, e, Len(s))))
         IN  IF r = 0 THEN [sur |-> 0, rest |-> s]
             ELSE [sur |-> r, rest |-> Slice(s, 0, e)]

\* canonicalize that leaves a low surrogate at the start in place
canonicalize_no_low(s) ==
    LET h == split_off_last_high_surrogate(s)
    IN  [low |-> 0, mid |-> h.rest, high |-> h.sur]

\* Wtf8::canonicalize: (low, mid, high)
canonicalize(s) ==
    LET l == split_off_first_low_surrogate(s)
        h == split_off_last_high_surrogate(l.rest)
    IN  [low |-> l.sur, mid |-> h.rest, high |-> h.sur]

I8(b) == IF b >= 128 THEN b - 256 ELSE b

\* canonicalize_in_place that leaves the lead byte of a high surrogate at the
\* end in place
canonicalize_in_place_keep_lead(s) ==
    LET len == Len(s) IN
    IF len < 3 THEN s
    ELSE LET s1 == IF I8(s[1]) < -64
                   THEN [s EXCEPT ![1] = \hED, ![2] = Or(s[2], \h30)]
                   ELSE s
             cu == to_high_surrogate_from_split_repr_unchecked(
                       ThreeByteSeq_new(Slice(s1, len - 3, len)))
         IN  IF s1[len - 2] >= \hF0
             THEN [s1 EXCEPT ![len - 1] = U8(Shr(cu, 8)),
                             ![len] = U8(cu)]
             ELSE s1

\* Wtf8::canonicalize_in_place
canonicalize_in_place(s) ==
    LET len == Len(s) IN
    IF len < 3 THEN s
    ELSE LET s1 == IF I8(s[1]) < -64
                   THEN [s EXCEPT ![1] = \hED, ![2] = Or(s[2], \h30)]
                   ELSE s
             cu == to_high_surrogate_from_split_repr_unchecked(
                       ThreeByteSeq_new(Slice(s1, len - 3, len)))
         IN  IF s1[len - 2] >= \hF0
             THEN [s1 EXCEPT ![len - 2] = \hED,
                             ![len - 1] = U8(Shr(cu, 8)),
                             ![len] = U8(cu)]
             ELSE s1

\* Wtf8::into_box (into_arc and into_rc copy and canonicalize the same way)
into_box(s) == canonicalize_in_place(s)

\* into_arc that copies the bytes and leaves them as they are
into_arc_raw(s) == s

\* Wtf8::into_arc
into_arc(s) == canonicalize_in_place(s)

\* Wtf8::into_rc
into_rc(s) == canonicalize_in_place(s)

\* equality of the raw bytes
Wtf8_eq_bytes(a, b) == a = b

\* impl PartialEq for Wtf8
Wtf8_eq(a, b) == canonicalize(a) = canonicalize(b)

\* core::cmp::Ordering is "Less", "Equal" or "Greater".
\* Ord for u8, u16 and, None being 0, for Option<LowSurrogate> and
\* Option<HighSurrogate>: None is less than every Some
cmp_int(x, y) == IF x < y THEN "Less" ELSE IF x > y THEN "Greater" ELSE "Equal"

\* Ord for [u8]: lexicographic, a proper prefix being less
RECURSIVE cmp_bytes(_, _)
cmp_bytes(a, b) ==
    IF a = <<>> THEN (IF b = <<>> THEN "Equal" ELSE "Less")
    ELSE IF b = <<>> THEN "Greater"
    ELSE IF Head(a) # Head(b) THEN cmp_int(Head(a), Head(b))
    ELSE cmp_bytes(Tail(a), Tail(b))

\* impl Ord for Wtf8: the lexicographic order of the tuples that canonicalize
\* returns
Wtf8_cmp(a, b) ==
    LET x == canonicalize(a)
        y == canonicalize(b)
    IN  IF cmp_int(x.low, y.low) # "Equal" THEN cmp_int(x.low, y.low)
        ELSE IF cmp_bytes(x.mid, y.mid) # "Equal" THEN cmp_bytes(x.mid, y.mid)
        ELSE cmp_int(x.high, y.high)

\* Wtf8Buf::as_slice
as_slice(b) == b

\* #[derive(Ord)] for Wtf8Buf: the order of its field bytes: Vec<u8>
Wtf8Buf_cmp(a, b) == cmp_bytes(a, b)

\* impl Hash for Wtf8: the byte stream written to the hasher
Wtf8_hash(s) ==
    LET c == canonicalize(s) IN
    (IF c.low # 0 THEN LowSurrogate_decode(c.low) ELSE <<>>)
    \o c.mid
    \o (IF c.high # 0 THEN HighSurrogate_decode(c.high) ELSE <<>>)
    \o <<\hFE>>

\* impl Hash for Wtf8Buf: the byte stream written to the hasher
Wtf8Buf_hash(b) == b \o <<\hFE>>

\* slice_error_fail always panics; slice_unchecked returns the raw sub-range.
\* A result is [panicked, wrapped, bytes]: wrapped marks `end - begin`
\* underflowing in slice_unchecked.
SliceFail == [panicked |-> TRUE, wrapped |-> FALSE, bytes |-> <<>>]

slice_unchecked(s, begin, end) ==
    IF begin > end THEN [panicked |-> FALSE, wrapped |-> TRUE, bytes |-> <<>>]
    ELSE [panicked |-> FALSE, wrapped |-> FALSE, bytes |-> Slice(s, begin, end)]

\* impl Index<Range<usize>> for Wtf8
IndexRange(s, begin, end) ==
    IF begin = end THEN [panicked |-> FALSE, wrapped |-> FALSE, bytes |-> <<>>]
    ELSE LET cb == classify_index(s, begin)
             ce == classify_index(s, end)
         IN  IF cb # FourByteSeq2 /\ cb # CharBoundary THEN SliceFail
             ELSE IF ce # FourByteSeq2 /\ ce # CharBoundary THEN SliceFail
             ELSE slice_unchecked(s,
                                  IF cb = FourByteSeq2 THEN begin - 1 ELSE begin,
                                  IF ce = FourByteSeq2 THEN end + 1 ELSE end)

\* s[begin..] that starts at begin itself at the midpoint of a 4-byte sequence
IndexRangeFrom_no_adjust(s, begin) ==
    LET cb == classify_index(s, begin) IN
    IF cb # FourByteSeq2 /\ cb # CharBoundary THEN SliceFail
    ELSE slice_unchecked(s, begin, Len(s))

\* impl Index<RangeFrom<usize>> for Wtf8
IndexRangeFrom(s, begin) ==
    LET cb == classify_index(s, begin) IN
    IF cb # FourByteSeq2 /\ cb # CharBoundary THEN SliceFail
    ELSE slice_unchecked(s, IF cb = FourByteSeq2 THEN begin - 1 ELSE begin, Len(s))

\* s[..end] that ends at end itself at the midpoint of a 4-byte sequence
IndexRangeTo_no_adjust(s, end) ==
    LET ce == classify_index(s, end) IN
    IF ce # FourByteSeq2 /\ ce # CharBoundary THEN SliceFail
    ELSE slice_unchecked(s, 0, end)

\* impl Index<RangeTo<usize>> for Wtf8
IndexRangeTo(s, end) ==
    LET ce == classify_index(s, end) IN
    IF ce # FourByteSeq2 /\ ce # CharBoundary THEN SliceFail
    ELSE slice_unchecked(s, 0, IF ce = FourByteSeq2 THEN end + 1 ELSE end)

----------------------------------------------------------------------------
(* EncodeWide: the iterator state is (sl, extra).                          *)

\* EncodeWide::next that forgets the second half of a surrogate pair
EncodeWide_next_no_extra(sl, extra) ==
    IF sl = <<>> THEN [some |-> FALSE, item |-> 0, sl |-> sl, extra |-> 0]
    ELSE LET cp == next_code_point(sl) IN
         [some |-> TRUE, item |-> encode_utf16(cp.ch)[1],
          sl |-> Slice(sl, cp.n, Len(sl)), extra |-> 0]

\* EncodeWide::next: [some, item, sl, extra]
EncodeWide_next(sl, extra) ==
    IF extra # 0 THEN [some |-> TRUE, item |-> extra, sl |-> sl, extra |-> 0]
    ELSE IF sl = <<>> THEN [some |-> FALSE, item |-> 0, sl |-> sl, extra |-> 0]
    ELSE LET is_split_surrogate ==
                 \/ sl[1] >= \h80 /\ sl[1] <= \hBF
                 \/ sl[1] >= \hF0 /\ Len(sl) = 3
         IN  IF is_split_surrogate THEN
                 [some |-> TRUE,
                  item |-> as_code_unit(ThreeByteSeq_new(sl)),
                  sl |-> Slice(sl, 3, Len(sl)),
                  extra |-> 0]
             ELSE LET cp == next_code_point(sl)
                      buf == encode_utf16(cp.ch)
                  IN  [some |-> TRUE,
                       item |-> buf[1],
                       sl |-> Slice(sl, cp.n, Len(sl)),
                       extra |-> IF Len(buf) = 2 THEN buf[2] ELSE 0]

\* EncodeWide::size_hint: <<lower, upper>>
EncodeWide_size_hint(sl) == <<(Len(sl) + 2) \div 3, Len(sl)>>

\* s.encode_wide().collect()
RECURSIVE EncodeWide_collect(_, _)
EncodeWide_collect(sl, extra) ==
    LET n == EncodeWide_next(sl, extra) IN
    IF ~n.some THEN <<>>
    ELSE <<n.item>> \o EncodeWide_collect(n.sl, n.extra)

encode_wide(s) == EncodeWide_collect(s, 0)

----------------------------------------------------------------------------
(* Wtf8Buf: the owned buffer.  Each operator gives the new value of bytes. *)

\* Wtf8Buf::push_code_point_unchecked
push_code_point_unchecked(b, code_point) == b \o encode_utf8(code_point)

\* Wtf8Buf::push_char
push_char(b, c) == push_code_point_unchecked(b, c)

\* Wtf8Buf::push_str
push_str(b, str) == b \o str

\* Wtf8Buf::from_wide
RECURSIVE from_wide_items(_, _)
from_wide_items(string, items) ==
    IF items = <<>> THEN string
    ELSE LET item == Head(items) IN
         from_wide_items(IF item.ok THEN push_char(string, item.v)
                         ELSE push_code_point_unchecked(string, item.v),
                         Tail(items))

\* from_wide that pushes every code unit on its own, pairing nothing
from_wide_unpaired(v) ==
    from_wide_items(<<>>, [i \in 1..Len(v) |-> [ok |-> FALSE, v |-> v[i]]])

from_wide(v) == from_wide_items(<<>>, decode_utf16(v))

\* push_low_surrogate that never recombines a pair
push_low_surrogate_no_merge(b, trail) == b \o LowSurrogate_decode(trail)

\* Wtf8Buf::push_low_surrogate
push_low_surrogate(b, trail) ==
    LET lead == split_off_last_high_surrogate(b).sur IN
    IF lead # 0
    THEN Slice(b, 0, Len(b) - 3) \o decode_surrogate_pair(lead, trail)
    ELSE b \o LowSurrogate_decode(trail)

\* push_wtf8 that appends the view's bytes as they are
push_wtf8_raw(b, o) == b \o o

\* push_wtf8 that appends a high surrogate at the end of the view as it is
push_wtf8_keep_high(b, o) ==
    LET c == canonicalize(o)
        b1 == IF c.low # 0 THEN push_low_surrogate(b, c.low) ELSE b
        b2 == b1 \o c.mid
    IN  IF c.high # 0 THEN b2 \o Slice(o, Len(o) - 3, Len(o)) ELSE b2

\* Wtf8Buf::push_wtf8
push_wtf8(b, o) ==
    LET c == canonicalize(o)
        b1 == IF c.low # 0 THEN push_low_surrogate(b, c.low) ELSE b
        b2 == b1 \o c.mid
    IN  IF c.high # 0 THEN b2 \o HighSurrogate_decode(c.high) ELSE b2

\* truncate that cuts at new_len and does not canonicalize
truncate_no_canon(b, new_len) ==
    LET ty == classify_index(b, new_len) IN
    IF ty = CharBoundary \/ ty = FourByteSeq2 THEN
        [panicked |-> FALSE, bytes |-> Slice(b, 0, new_len)]
    ELSE [panicked |-> TRUE, bytes |-> b]

\* truncate that cuts at any offset within the buffer
truncate_unclassified(b, new_len) ==
    IF new_len > Len(b) THEN [panicked |-> TRUE, bytes |-> b]
    ELSE [panicked |-> FALSE, bytes |-> Slice(b, 0, new_len)]

\* Wtf8Buf::truncate: [panicked, bytes]
truncate(b, new_len) ==
    LET ty == classify_index(b, new_len) IN
    IF ty = CharBoundary THEN
        [panicked |-> FALSE, bytes |-> Slice(b, 0, new_len)]
    ELSE IF ty = FourByteSeq2 THEN
        [panicked |-> FALSE, bytes |-> canonicalize_in_place(Slice(b, 0, new_len + 1))]
    ELSE [panicked |-> TRUE, bytes |-> b]

\* Wtf8Buf::from_box
from_box(boxed) == boxed

\* "\u{FFFD}".as_bytes()
UTF8_REPLACEMENT_CHARACTER == <<\hEF, \hBF, \hBD>>

\* into_string that does not look for surrogates
into_string_unchecked(b) == [ok |-> TRUE, bytes |-> b]

\* Wtf8Buf::into_string: [ok, bytes], the String of Ok or the buffer of Err
into_string(b) == [ok |-> ~next_surrogate(b, 0).some, bytes |-> b]

\* the loop of Wtf8Buf::into_string_lossy, entered with pos; the bytes
\* [surrogate_pos..pos] are overwritten in place
RECURSIVE into_string_lossy_loop(_, _)
into_string_lossy_loop(b, pos) ==
    LET n == next_surrogate(b, pos) IN
    IF ~n.some THEN b
    ELSE into_string_lossy_loop(
             Slice(b, 0, n.pos) \o UTF8_REPLACEMENT_CHARACTER \o Slice(b, n.pos + 3, Len(b)),
             n.pos + 3)

\* into_string_lossy that stops after the first surrogate
into_string_lossy_once(b) ==
    LET n == next_surrogate(b, 0) IN
    IF ~n.some THEN b
    ELSE Slice(b, 0, n.pos) \o UTF8_REPLACEMENT_CHARACTER \o Slice(b, n.pos + 3, Len(b))

\* Wtf8Buf::into_string_lossy
into_string_lossy(b) == into_string_lossy_loop(b, 0)

\* the loop of Wtf8::to_string_lossy, entered with utf8_bytes and pos
RECURSIVE to_string_lossy_loop(_, _, _)
to_string_lossy_loop(s, utf8_bytes, pos) ==
    LET n == next_surrogate(s, pos) IN
    IF n.some THEN
        to_string_lossy_loop(
            s, utf8_bytes \o Slice(s, pos, n.pos) \o UTF8_REPLACEMENT_CHARACTER, n.pos + 3)
    ELSE utf8_bytes \o Slice(s, pos, Len(s))

\* Wtf8::to_string_lossy: the bytes of the Cow<str>
to_string_lossy(s) ==
    LET first == next_surrogate(s, 0) IN
    IF ~first.some THEN s
    ELSE to_string_lossy_loop(
             s, Slice(s, 0, first.pos) \o UTF8_REPLACEMENT_CHARACTER, first.pos + 3)

----------------------------------------------------------------------------
(* Inputs.                                                                 *)

\* code units: ASCII, 2-byte, 3-byte (U+D7FF, the last before the
\* surrogates), a high surrogate and two low surrogates
Units == {\h61, \hE9, \hD7FF, \hD83D, \hDCA9, \hDC00}

\* Unicode scalar values (char): 1-, 2-, 3- and 4-byte
Chars == {\h61, \hE9, \hD7FF, \h1F4A9}

\* code units of the buffers that views are sliced from
SrcUnits == {\h61, \hD83D, \hDCA9, \hDC00}

SeqsUpTo(S, n) == UNION {[1..k -> S] : k \in 0..n}

RECURSIVE str_bytes(_)
str_bytes(cs) == IF cs = <<>> THEN <<>> ELSE encode_utf8(Head(cs)) \o str_bytes(Tail(cs))

\* &str / String values, as their UTF-8 bytes
Strs == {str_bytes(cs) : cs \in SeqsUpTo(Chars, MaxStr)}

\* the owned buffers that views are borrowed from
Sources == {from_wide(v) : v \in SeqsUpTo(SrcUnits, MaxSrc)}

\* every Wtf8 view: a slice s[begin..end] of an owned buffer
Views ==
    LET cuts == UNION {{IndexRange(s, b, e) : b \in 0..Len(s), e \in 0..Len(s)}
                       : s \in Sources}
    IN  {r.bytes : r \in {c \in cuts : ~c.panicked /\ ~c.wrapped}}

----------------------------------------------------------------------------
(* The owned buffer's operations.                                          *)

\* the value of it while no ReplaceWith exists
NoReplaceWith ==
    [state |-> "None", start |-> 0, end |-> 0, count |-> -1, searcher |-> 0, consulted |-> 0]

Init ==
    /\ bytes = <<>>
    /\ op = "new"
    /\ prev = <<>>
    /\ other = <<>>
    /\ args = <<>>
    /\ res = <<>>
    /\ wide = <<>>
    /\ panicked = FALSE
    /\ ok = TRUE
    /\ it = NoReplaceWith
    /\ wrapped = FALSE

\* a constructor or mutator of the owned buffer that cannot panic
Done(name, new_bytes, before, view, nums, units) ==
    /\ bytes' = new_bytes
    /\ op' = name
    /\ prev' = before
    /\ other' = view
    /\ args' = nums
    /\ wide' = units
    /\ res' = <<>>
    /\ panicked' = FALSE
    /\ ok' = TRUE
    /\ wrapped' = FALSE
    /\ UNCHANGED it

New == Done("new", <<>>, <<>>, <<>>, <<>>, <<>>)

\* The constructors below take no buffer: what they build does not depend on
\* the state.  The model lets them replace the buffer that New has just
\* built, which New reaches from every state, so the reachable states are
\* those of constructors enabled everywhere.
Fresh == op = "new"

FromStr == Fresh /\ \E s \in Strs : Done("from_str", s, <<>>, s, <<>>, <<>>)

FromString == Fresh /\ \E s \in Strs : Done("from_string", s, <<>>, s, <<>>, <<>>)

\* from_wide and from_box over all their inputs, computed once
FromWideCalls == {[v |-> v, b |-> from_wide(v)] : v \in SeqsUpTo(Units, MaxWide)}

FromBoxCalls == {[v |-> v, b |-> from_box(into_box(v))] : v \in Views}

FromWide ==
    Fresh /\ \E c \in FromWideCalls : Done("from_wide", c.b, <<>>, <<>>, <<>>, c.v)

FromBox ==
    Fresh /\ \E c \in FromBoxCalls : Done("from_box", c.b, <<>>, c.v, <<>>, <<>>)

Clear == Done("clear", <<>>, bytes, <<>>, <<>>, <<>>)

PushStr ==
    \E s \in Strs :
        /\ Len(bytes) + Len(s) <= MaxLen
        /\ Done("push_str", push_str(bytes, s), bytes, s, <<>>, <<>>)

PushChar ==
    \E c \in Chars :
        /\ Len(bytes) + Len(encode_utf8(c)) <= MaxLen
        /\ Done("push_char", push_char(bytes, c), bytes, <<>>, <<c>>, <<>>)

\* the views of at most n bytes, tabulated
ViewsUpTo == [n \in 0..MaxLen |-> {v \in Views : Len(v) <= n}]

PushWtf8 ==
    \E v \in ViewsUpTo[SatSub(MaxLen, Len(bytes))] :
        /\ Len(bytes) + Len(v) <= MaxLen
        /\ Done("push_wtf8", push_wtf8(bytes, v), bytes, v, <<>>, <<>>)

Truncate ==
    \E new_len \in 0..(Len(bytes) + 1) :
        LET r == truncate(bytes, new_len) IN
        /\ bytes' = r.bytes
        /\ op' = "truncate"
        /\ prev' = bytes
        /\ args' = <<new_len>>
        /\ panicked' = r.panicked
        /\ other' = <<>>
        /\ res' = <<>>
        /\ wide' = <<>>
        /\ ok' = TRUE
        /\ wrapped' = FALSE
        /\ UNCHANGED it

\* into_string consumes the buffer; the String of Ok and the buffer of Err
\* both own the same allocation, which the model keeps in bytes
IntoString ==
    LET r == into_string(bytes) IN
    /\ bytes' = r.bytes
    /\ op' = "into_string"
    /\ prev' = bytes
    /\ res' = r.bytes
    /\ ok' = r.ok
    /\ args' = <<>>
    /\ other' = <<>>
    /\ wide' = <<>>
    /\ panicked' = FALSE
    /\ wrapped' = FALSE
    /\ UNCHANGED it

IntoStringLossy ==
    LET r == into_string_lossy(bytes) IN
    /\ bytes' = r
    /\ op' = "into_string_lossy"
    /\ prev' = bytes
    /\ res' = r
    /\ ok' = TRUE
    /\ args' = <<>>
    /\ other' = <<>>
    /\ wide' = <<>>
    /\ panicked' = FALSE
    /\ wrapped' = FALSE
    /\ UNCHANGED it

\* s.to_string_lossy() for a view s: it reads only s, and is applied to every
\* view once
ToStringLossy ==
    /\ op = "new"
    /\ \E s \in Views :
        /\ op' = "to_string_lossy"
        /\ other' = s
        /\ res' = to_string_lossy(s)
        /\ args' = <<>>
        /\ UNCHANGED <<bytes, prev, wide, panicked, ok, wrapped, it>>

Next ==
    \/ New
    \/ FromStr
    \/ FromString
    \/ FromWide
    \/ FromBox
    \/ Clear
    \/ PushStr
    \/ PushChar
    \/ PushWtf8
    \/ Truncate
    \/ IntoString
    \/ IntoStringLossy
    \/ ToStringLossy

Spec == Init /\ [][Next]_vars

----------------------------------------------------------------------------
(* Slicing a view: s[begin..end], s[begin..], s[..end].                    *)

\* a slice operation on the view s, with outcome r
Sliced(name, s, nums, r, checks) ==
    /\ op' = name
    /\ other' = s
    /\ args' = nums
    /\ res' = r.bytes
    /\ wrapped' = r.wrapped
    \* `end - begin` with begin > end panics when overflow checks are
    \* compiled in and wraps when they are not
    /\ panicked' = (r.panicked \/ (r.wrapped /\ checks))
    /\ UNCHANGED <<bytes, prev, wide, ok, it>>

\* A slice operation reads only its receiver and its range: the model applies
\* each to every input once, from the initial state.
SliceRange ==
    /\ op = "new"
    /\ \E s \in Views : \E begin \in 0..(Len(s) + 1), end \in 0..(Len(s) + 1) :
        \E checks \in BOOLEAN :
            Sliced("index_range", s, <<begin, end>>, IndexRange(s, begin, end), checks)

SliceFrom ==
    /\ op = "new"
    /\ \E s \in Views : \E begin \in 0..(Len(s) + 1) :
        Sliced("index_range_from", s, <<begin>>, IndexRangeFrom(s, begin), FALSE)

SliceTo ==
    /\ op = "new"
    /\ \E s \in Views : \E end \in 0..(Len(s) + 1) :
        Sliced("index_range_to", s, <<end>>, IndexRangeTo(s, end), FALSE)

NextSlice ==
    \/ SliceRange
    \/ SliceFrom
    \/ SliceTo

SpecSlice == Init /\ [][NextSlice]_vars

----------------------------------------------------------------------------
(* Comparing and hashing two views.                                        *)

\* Comparison reads only its two operands: applied once to every pair.
Compare ==
    /\ op = "new"
    /\ \E a \in Views, b \in Views :
        /\ op' = "eq"
        /\ other' = a
        /\ res' = b
        /\ UNCHANGED <<bytes, prev, args, wide, panicked, ok, wrapped, it>>

NextCmp == Compare

SpecCmp == Init /\ [][NextCmp]_vars

----------------------------------------------------------------------------
(* Cutting an owned buffer in two and joining the halves again.            *)

\* let mut b = Wtf8Buf::new(); b.push_wtf8(&s[..i]); b.push_wtf8(&s[i..]);
\* for an owned buffer s.  prev is s[..i], res is s[i..], bytes is b.
Rejoin ==
    /\ op = "new"
    /\ \E s \in Sources : \E i \in 0..(Len(s) + 1) :
        LET left == IndexRangeTo(s, i)
            right == IndexRangeFrom(s, i)
            failed == left.panicked \/ right.panicked
        IN  /\ op' = "rejoin"
            /\ other' = s
            /\ args' = <<i>>
            /\ prev' = left.bytes
            /\ res' = right.bytes
            /\ panicked' = failed
            /\ bytes' = IF failed THEN <<>>
                        ELSE push_wtf8(push_wtf8(<<>>, left.bytes), right.bytes)
            /\ UNCHANGED <<wide, ok, wrapped, it>>

NextRejoin == Rejoin

SpecRejoin == Init /\ [][NextRejoin]_vars

----------------------------------------------------------------------------
(* The surrogate codec on its own: 3-byte windows and surrogate pairs.     *)

\* 3-byte windows: every combination of bytes at the edges of the ranges
\* the codec tells apart
WindowBytes1 == {\h00, \h7F, \h80, \h9F, \hBF, \hC0, \hEC, \hED, \hEE, \hEF, \hF0, \hF4, \hFF}
WindowBytes2 == {\h00, \h7F, \h80, \h8F, \h90, \h9F, \hA0, \hAF, \hB0, \hBF, \hC0, \hFF}
WindowBytes3 == {\h00, \h80, \h92, \hBF, \hFF}

Windows ==
    {ThreeByteSeq_new(<<b1, b2, b3>>) :
        b1 \in WindowBytes1, b2 \in WindowBytes2, b3 \in WindowBytes3}

\* the low 6 bits of the surrogates the model pairs
SurrogateLowBits == {0, 1, \h0D, \h29, \h3D, \h3F}

\* HighSurrogate values 0xa080..=0xafbf and LowSurrogate values 0xb080..=0xbfbf
HighSurrogates == {\hA080 + (a * 256) + b : a \in 0..15, b \in SurrogateLowBits}
LowSurrogates == {\hB080 + (a * 256) + b : a \in 0..15, b \in SurrogateLowBits}

\* the outcome of a codec function: res is <<value>> (0 is None) or the bytes
Decoded(name, nums, value, fails) ==
    /\ op' = name
    /\ args' = nums
    /\ res' = value
    /\ panicked' = fails
    /\ UNCHANGED <<bytes, prev, other, wide, ok, wrapped, it>>

\* ThreeByteSeq(w).to_high_surrogate(); `... - 0x100` below 0 panics when
\* overflow checks are compiled in and wraps when they are not
ToHighSurrogate ==
    /\ op = "new"
    /\ \E w \in Windows : \E checks \in BOOLEAN :
        Decoded("to_high_surrogate", <<w>>, <<to_high_surrogate(w)>>,
                split_repr_underflows(w) /\ checks)

\* ThreeByteSeq(w).to_low_surrogate()
ToLowSurrogate ==
    /\ op = "new"
    /\ \E w \in Windows :
        Decoded("to_low_surrogate", <<w>>, <<to_low_surrogate(w)>>, FALSE)

\* decode_surrogate_pair(HighSurrogate(h), LowSurrogate(l))
DecodeSurrogatePair ==
    /\ op = "new"
    /\ \E h \in HighSurrogates, l \in LowSurrogates :
        Decoded("decode_surrogate_pair", <<h, l>>, decode_surrogate_pair(h, l), FALSE)

NextCodec ==
    \/ ToHighSurrogate
    \/ ToLowSurrogate
    \/ DecodeSurrogatePair

SpecCodec == Init /\ [][NextCodec]_vars

----------------------------------------------------------------------------
(* Iterating over s.encode_wide(), one next() at a time.                   *)

\* let it = s.encode_wide(): other is s, res is it.bytes.as_slice(), args is
\* <<it.extra>>, wide is what next() has yielded so far
EncodeWideStart ==
    /\ op = "new"
    /\ \E s \in Views :
        /\ op' = "encode_wide"
        /\ other' = s
        /\ res' = s
        /\ args' = <<0>>
        /\ wide' = <<>>
        /\ ok' = TRUE
        /\ UNCHANGED <<bytes, prev, panicked, wrapped, it>>

\* it.next(); ok is FALSE when it returned None
EncodeWideNext ==
    /\ op \in {"encode_wide", "next"}
    /\ LET n == EncodeWide_next(res, args[1]) IN
        /\ op' = "next"
        /\ res' = n.sl
        /\ args' = <<n.extra>>
        /\ wide' = IF n.some THEN Append(wide, n.item) ELSE wide
        /\ ok' = n.some
        /\ UNCHANGED <<bytes, prev, other, panicked, wrapped, it>>

NextWide ==
    \/ EncodeWideStart
    \/ EncodeWideNext

SpecWide == Init /\ [][NextWide]_vars

----------------------------------------------------------------------------
(* ReplaceWith (libcore/pattern/iterators.rs) over a haystack that is a    *)
(* sequence of elements, cursors being offsets, searched for one element.  *)

HayElems == {1, 2}

Haystacks == SeqsUpTo(HayElems, MaxHay)

\* count: Option<usize>, -1 is None
Counts == {-1} \cup 0..MaxCount

\* the pattern: the element 1
IsMatch(e) == e = 1

\* Haystack::cursor_at_front, cursor_at_back, range_to_self and the cursor
\* conversions
cursor_at_front(h) == 0
cursor_at_back(h) == Len(h)
range_to_self(h, start, end) == Slice(h, start, end)
start_to_end_cursor(h, cur) == cur
end_to_start_cursor(h, cur) == cur

\* the closure `to`: what replaces a match
to(piece) == <<0>>

\* Searcher::next_match of a searcher at offset pos: [found, a, b, pos]
RECURSIVE Searcher_next_match(_, _)
Searcher_next_match(h, pos) ==
    IF pos >= Len(h) THEN [found |-> FALSE, a |-> 0, b |-> 0, pos |-> Len(h)]
    ELSE IF IsMatch(h[pos + 1])
         THEN [found |-> TRUE, a |-> pos, b |-> pos + 1, pos |-> pos + 1]
         ELSE Searcher_next_match(h, pos + 1)

\* ReplaceWith::new that starts at the back of the haystack
ReplaceWith_new_at_back(h, count) ==
    [state |-> "HasNext", start |-> cursor_at_back(h), end |-> 0, count |-> count,
     searcher |-> 0, consulted |-> 0]

\* ReplaceWith::new.  state is HasNext(start), Match(start, end) or Finished;
\* searcher is the searcher's offset, consulted counts its next_match calls
ReplaceWith_new(h, count) ==
    [state |-> "HasNext", start |-> cursor_at_front(h), end |-> 0, count |-> count,
     searcher |-> 0, consulted |-> 0]

\* ReplaceWith::next_match that does not look at count
ReplaceWith_next_match_uncounted(r, h) ==
    LET m == Searcher_next_match(h, r.searcher) IN
    [found |-> m.found, a |-> m.a, b |-> m.b,
     it |-> [r EXCEPT !.searcher = m.pos, !.consulted = @ + 1]]

\* ReplaceWith::next_match: [found, a, b, it]
ReplaceWith_next_match(r, h) ==
    IF r.count = 0 THEN [found |-> FALSE, a |-> 0, b |-> 0, it |-> r]
    ELSE LET m == Searcher_next_match(h, r.searcher) IN
         [found |-> m.found, a |-> m.a, b |-> m.b,
          it |-> [r EXCEPT !.count = IF @ > 0 THEN @ - 1 ELSE @,
                           !.searcher = m.pos,
                           !.consulted = @ + 1]]

\* next() that resumes at the start of the match it has just replaced
ReplaceWith_next_stay(r, h) ==
    IF r.state = "Finished" THEN
        [it |-> r, some |-> FALSE, item |-> <<>>, from |-> 0, upto |-> 0]
    ELSE IF r.state = "HasNext" THEN
        LET m == ReplaceWith_next_match(r, h) IN
        IF m.found THEN
            [it |-> [m.it EXCEPT !.state = "Match", !.start = m.a, !.end = m.b],
             some |-> TRUE,
             item |-> range_to_self(h, r.start, start_to_end_cursor(h, m.a)),
             from |-> r.start, upto |-> start_to_end_cursor(h, m.a)]
        ELSE
            [it |-> [m.it EXCEPT !.state = "Finished", !.start = 0, !.end = 0],
             some |-> TRUE,
             item |-> range_to_self(h, r.start, cursor_at_back(h)),
             from |-> r.start, upto |-> cursor_at_back(h)]
    ELSE
        [it |-> [r EXCEPT !.state = "HasNext", !.end = 0],
         some |-> TRUE,
         item |-> to(range_to_self(h, r.start, r.end)),
         from |-> r.start, upto |-> r.end]

\* impl Iterator for ReplaceWith, next: [it, some, item, from, upto]; from and
\* upto are the cursors given to range_to_self
ReplaceWith_next(r, h) ==
    IF r.state = "Finished" THEN
        [it |-> r, some |-> FALSE, item |-> <<>>, from |-> 0, upto |-> 0]
    ELSE IF r.state = "HasNext" THEN
        LET m == ReplaceWith_next_match(r, h) IN
        IF m.found THEN
            [it |-> [m.it EXCEPT !.state = "Match", !.start = m.a, !.end = m.b],
             some |-> TRUE,
             item |-> range_to_self(h, r.start, start_to_end_cursor(h, m.a)),
             from |-> r.start, upto |-> start_to_end_cursor(h, m.a)]
        ELSE
            [it |-> [m.it EXCEPT !.state = "Finished", !.start = 0, !.end = 0],
             some |-> TRUE,
             item |-> range_to_self(h, r.start, cursor_at_back(h)),
             from |-> r.start, upto |-> cursor_at_back(h)]
    ELSE
        [it |-> [r EXCEPT !.state = "HasNext",
                          !.start = end_to_start_cursor(h, r.end),
                          !.end = 0],
         some |-> TRUE,
         item |-> to(range_to_self(h, r.start, r.end)),
         from |-> r.start, upto |-> r.end]

\* haystack.replace_with(pat, to, count): other is the haystack, wide is
\* <<count>> as given, args will list the ranges of the items yielded
ReplaceWithNew ==
    /\ op = "new"
    /\ \E h \in Haystacks, count \in Counts :
        /\ op' = "replace_with"
        /\ other' = h
        /\ it' = ReplaceWith_new(h, count)
        /\ res' = <<>>
        /\ ok' = TRUE
        /\ wide' = <<count>>
        /\ args' = <<>>
        /\ UNCHANGED <<bytes, prev, panicked, wrapped>>

\* it.next(): res is the item, ok is FALSE for None.  Each item yielded adds
\* <<called, from, upto>> to args: the range of the haystack it was made of,
\* and called = 1 when the range was passed to the closure `to`, 0 when not
ReplaceWithNext ==
    /\ op \in {"replace_with", "replace_next"}
    /\ LET n == ReplaceWith_next(it, other) IN
        /\ op' = "replace_next"
        /\ it' = n.it
        /\ res' = n.item
        /\ ok' = n.some
        /\ args' = IF n.some
                   THEN Append(args, <<IF it.state = "Match" THEN 1 ELSE 0, n.from, n.upto>>)
                   ELSE args
        /\ UNCHANGED <<bytes, prev, other, wide, panicked, wrapped>>

NextReplace ==
    \/ ReplaceWithNew
    \/ ReplaceWithNext

SpecReplace == Init /\ [][NextReplace]_vars

----------------------------------------------------------------------------
(* Split, SplitTerminator and SplitN (libcore/pattern/iterators.rs),       *)
(* iterated forward over the same haystacks with the same searcher.        *)

\* the counts given to splitn
SplitCounts == 0..(MaxCount + 1)

\* Haystack::split: the SplitInternal it builds; matcher is the searcher's
\* offset
split(h) ==
    [start |-> cursor_at_front(h), end |-> cursor_at_back(h), matcher |-> 0,
     allow_trailing_empty |-> TRUE, finished |-> FALSE]

\* Haystack::split_terminator
split_terminator(h) == [split(h) EXCEPT !.allow_trailing_empty = FALSE]

\* Haystack::splitn: the SplitNInternal it builds
splitn(h, count) == [iter |-> split(h), count |-> count]

\* get_end that yields the remainder also when it is empty and
\* allow_trailing_empty is false
SplitInternal_get_end_always(r, h) ==
    IF r.finished THEN [it |-> r, some |-> FALSE, item |-> <<>>, from |-> 0, upto |-> 0]
    ELSE [it |-> [r EXCEPT !.finished = TRUE],
          some |-> TRUE,
          item |-> range_to_self(h, r.start, r.end),
          from |-> r.start, upto |-> r.end]

\* SplitInternal::get_end: [it, some, item, from, upto]; from and upto are the
\* cursors given to range_to_self
SplitInternal_get_end(r, h) ==
    IF r.finished THEN [it |-> r, some |-> FALSE, item |-> <<>>, from |-> 0, upto |-> 0]
    ELSE IF ~r.allow_trailing_empty /\ start_to_end_cursor(h, r.start) >= r.end THEN
        [it |-> r, some |-> FALSE, item |-> <<>>, from |-> 0, upto |-> 0]
    ELSE [it |-> [r EXCEPT !.finished = TRUE],
          some |-> TRUE,
          item |-> range_to_self(h, r.start, r.end),
          from |-> r.start, upto |-> r.end]

\* SplitInternal::next
SplitInternal_next(r, h) ==
    IF r.finished THEN [it |-> r, some |-> FALSE, item |-> <<>>, from |-> 0, upto |-> 0]
    ELSE LET m == Searcher_next_match(h, r.matcher)
             r1 == [r EXCEPT !.matcher = m.pos]
         IN  IF m.found THEN
                 LET a == start_to_end_cursor(h, m.a)
                     b == end_to_start_cursor(h, m.b)
                 IN  [it |-> [r1 EXCEPT !.start = b],
                      some |-> TRUE,
                      item |-> range_to_self(h, r.start, a),
                      from |-> r.start, upto |-> a]
             ELSE SplitInternal_get_end(r1, h)

\* SplitNInternal::next that splits once more when count is 1
SplitNInternal_next_on(r, h) ==
    IF r.count = 0 THEN [it |-> r, some |-> FALSE, item |-> <<>>, from |-> 0, upto |-> 0]
    ELSE LET n == SplitInternal_next(r.iter, h) IN
         [n EXCEPT !.it = [iter |-> n.it, count |-> r.count - 1]]

\* SplitNInternal::next
SplitNInternal_next(r, h) ==
    IF r.count = 0 THEN [it |-> r, some |-> FALSE, item |-> <<>>, from |-> 0, upto |-> 0]
    ELSE IF r.count = 1 THEN
        LET n == SplitInternal_get_end(r.iter, h) IN
        [n EXCEPT !.it = [iter |-> n.it, count |-> 0]]
    ELSE LET n == SplitInternal_next(r.iter, h) IN
         [n EXCEPT !.it = [iter |-> n.it, count |-> r.count - 1]]

\* an iterator was built over the haystack h: other is h, wide is <<count>>
\* for splitn, args will list the ranges of the items yielded
SplitBuilt(name, h, iter, count) ==
    /\ op' = name
    /\ other' = h
    /\ it' = iter
    /\ wide' = count
    /\ args' = <<>>
    /\ res' = <<>>
    /\ ok' = TRUE
    /\ UNCHANGED <<bytes, prev, panicked, wrapped>>

\* next() returned n: res is the item, ok is FALSE for None; each item
\* yielded adds its range <<from, upto>> to args
SplitYielded(name, n) ==
    /\ op' = name
    /\ it' = n.it
    /\ res' = n.item
    /\ ok' = n.some
    /\ args' = IF n.some THEN Append(args, <<n.from, n.upto>>) ELSE args
    /\ UNCHANGED <<bytes, prev, other, wide, panicked, wrapped>>

\* haystack.split(pat)
SplitNew ==
    op = "new" /\ \E h \in Haystacks : SplitBuilt("split", h, split(h), <<>>)

\* haystack.split_terminator(pat)
SplitTerminatorNew ==
    op = "new" /\ \E h \in Haystacks :
        SplitBuilt("split_terminator", h, split_terminator(h), <<>>)

\* Split::next and SplitTerminator::next
SplitNext ==
    /\ op \in {"split", "split_terminator", "split_next"}
    /\ SplitYielded("split_next", SplitInternal_next(it, other))

\* haystack.splitn(count, pat)
SplitNNew ==
    op = "new" /\ \E h \in Haystacks, count \in SplitCounts :
        SplitBuilt("splitn", h, splitn(h, count), <<count>>)

\* SplitN::next
SplitNNext ==
    /\ op \in {"splitn", "splitn_next"}
    /\ SplitYielded("splitn_next", SplitNInternal_next(it, other))

NextSplit ==
    \/ SplitNew
    \/ SplitTerminatorNew
    \/ SplitNext
    \/ SplitNNew
    \/ SplitNNext

SpecSplit == Init /\ [][NextSplit]_vars

----------------------------------------------------------------------------
(* push_wtf8 as a function of self.bytes and other, whatever self.bytes    *)
(* holds.  The operations of Wtf8Buf keep self.bytes canonical; here the   *)
(* bytes are those of any view, a split edge included, to see what the     *)
(* code of push_wtf8 does with them.                                       *)

PushWtf8Any ==
    /\ op = "new"
    /\ \E a \in Views, b \in Views :
        /\ op' = "push_wtf8_any"
        /\ prev' = a
        /\ other' = b
        /\ bytes' = push_wtf8(a, b)
        /\ UNCHANGED <<args, res, wide, panicked, ok, wrapped, it>>

NextPush == PushWtf8Any

SpecPush == Init /\ [][NextPush]_vars

----------------------------------------------------------------------------
(* classify_index on every view and every offset up to 2 past its end.     *)

ClassifyIndex ==
    /\ op = "new"
    /\ \E s \in Views : \E index \in 0..(Len(s) + 2) :
        /\ op' = "classify_index"
        /\ other' = s
        /\ args' = <<index>>
        /\ res' = <<classify_index(s, index)>>
        /\ UNCHANGED <<bytes, prev, wide, panicked, ok, wrapped, it>>

NextClassify == ClassifyIndex

SpecClassify == Init /\ [][NextClassify]_vars

----------------------------------------------------------------------------
(* Cutting a view in two at one offset and encoding both parts.            *)

\* (&s[..i], &s[i..]) for a view s, and s.encode_wide().collect(): other is
\* s, prev is s[..i], res is s[i..], wide is the code units of s
CutWide ==
    /\ op = "new"
    /\ \E s \in Views : \E i \in 0..(Len(s) + 1) :
        LET left == IndexRangeTo(s, i)
            right == IndexRangeFrom(s, i)
        IN  /\ op' = "cut"
            /\ other' = s
            /\ args' = <<i>>
            /\ prev' = left.bytes
            /\ res' = right.bytes
            /\ panicked' = (left.panicked \/ right.panicked)
            /\ wide' = encode_wide(s)
            /\ UNCHANGED <<bytes, ok, wrapped, it>>

NextCut == CutWide

SpecCut == Init /\ [][NextCut]_vars

----------------------------------------------------------------------------
(* Converting a view into an owned immutable value.                        *)

\* s.into_box(), s.into_arc(), s.into_rc() take &self and canonicalize a copy
\* of self.bytes: other is s before the call, prev is s after it, res is the
\* content of the value returned
Frozen(name, s, value) ==
    /\ op' = name
    /\ other' = s
    /\ prev' = s
    /\ res' = value
    /\ UNCHANGED <<bytes, args, wide, panicked, ok, wrapped, it>>

IntoBox == op = "new" /\ \E s \in Views : Frozen("into_box", s, into_box(s))

IntoArc == op = "new" /\ \E s \in Views : Frozen("into_arc", s, into_arc(s))

IntoRc == op = "new" /\ \E s \in Views : Frozen("into_rc", s, into_rc(s))

NextFreeze ==
    \/ IntoBox
    \/ IntoArc
    \/ IntoRc

SpecFreeze == Init /\ [][NextFreeze]_vars

----------------------------------------------------------------------------
(* Ordering two owned buffers, as Wtf8Buf and through their views.         *)

\* the owned buffers from_wide builds; every owned buffer is from_wide of its
\* code units
Buffers == {c.b : c \in FromWideCalls}

\* a.cmp(&b) and a.as_slice().cmp(b.as_slice()): prev is a, other is b, args
\* is the two orderings
CompareBufs ==
    /\ op = "new"
    /\ \E a \in Buffers, b \in Buffers :
        /\ op' = "cmp"
        /\ prev' = a
        /\ other' = b
        /\ args' = <<Wtf8Buf_cmp(a, b), Wtf8_cmp(as_slice(a), as_slice(b))>>
        /\ UNCHANGED <<bytes, res, wide, panicked, ok, wrapped, it>>

NextOrd == CompareBufs

SpecOrd == Init /\ [][NextOrd]_vars

----------------------------------------------------------------------------
(* What the claims speak of, stated on bytes and code units by plain       *)
(* arithmetic, independently of the operators above.                       *)

IsCont(b) == b >= \h80 /\ b <= \hBF

\* the 3-byte encoding ED xx xx of the surrogate code unit u
Surrogate3(u) ==
    <<\hE0 + (u \div 4096), \h80 + ((u \div 64) % 64), \h80 + (u % 64)>>

\* the 4-byte UTF-8 encoding of the supplementary scalar c
Scalar4(c) ==
    <<\hF0 + (c \div 262144), \h80 + ((c \div 4096) % 64),
      \h80 + ((c \div 64) % 64), \h80 + (c % 64)>>

\* the scalar formed by the surrogate pair (h, l)
PairScalar(h, l) == 65536 + (h - \hD800) * 1024 + (l - \hDC00)

\* s begins with a low surrogate, canonical (ED B0..BF xx) or split (the
\* three continuation bytes of a 4-byte sequence)
StartsWithCanonicalLow(s) == Len(s) >= 3 /\ s[1] = \hED /\ s[2] >= \hB0
StartsWithSplitLow(s) == Len(s) >= 3 /\ IsCont(s[1])
StartsWithLow(s) == StartsWithCanonicalLow(s) \/ StartsWithSplitLow(s)

\* s ends in a high surrogate, canonical (ED A0..AF xx) or split (the lead
\* byte and two continuation bytes of a 4-byte sequence)
EndsInCanonicalHigh(s) ==
    Len(s) >= 3 /\ s[Len(s) - 2] = \hED /\ s[Len(s) - 1] >= \hA0 /\ s[Len(s) - 1] <= \hAF
EndsInSplitHigh(s) == Len(s) >= 3 /\ s[Len(s) - 2] >= \hF0
EndsInHigh(s) == EndsInCanonicalHigh(s) \/ EndsInSplitHigh(s)

\* the code unit of the low surrogate s begins with
FirstLowUnit(s) ==
    IF StartsWithSplitLow(s) THEN \hDC00 + (s[2] % 16) * 64 + (s[3] % 64)
    ELSE \hD000 + (s[2] % 64) * 64 + (s[3] % 64)

\* the code unit of the high surrogate s ends in
LastHighUnit(s) ==
    LET n == Len(s) IN
    IF EndsInSplitHigh(s)
    THEN \hD800 + ((((s[n - 2] % 8) * 262144) + ((s[n - 1] % 64) * 4096)
                     + (((s[n] % 64) \div 16) * 1024) - 65536) \div 1024)
    ELSE \hD000 + (s[n - 1] % 64) * 64 + (s[n] % 64)

\* the canonical content of s: its bytes with a split low surrogate at the
\* start and a split high surrogate at the end in 3-byte form
CanonicalContent(s) ==
    LET a == IF StartsWithSplitLow(s)
             THEN Surrogate3(FirstLowUnit(s)) \o Slice(s, 3, Len(s))
             ELSE s
    IN  IF EndsInSplitHigh(a)
        THEN Slice(a, 0, Len(a) - 3) \o Surrogate3(LastHighUnit(a))
        ELSE a

\* offset i of the well-formed buffer s is the midpoint of a 4-byte sequence
IsMidpoint(s, i) == i >= 2 /\ i + 2 <= Len(s) /\ s[i - 1] >= \hF0

\* offset i of the well-formed buffer s is the edge of a code point
IsBoundary(s, i) == i = 0 \/ i = Len(s) \/ (i < Len(s) /\ ~IsCont(s[i + 1]))

----------------------------------------------------------------------------
(* The claims.                                                             *)

\* C1: collecting from_wide(v).encode_wide() yields exactly v, for every
\* sequence v of code units, unpaired surrogates in any order included.
C1_FromWideEncodeWide == op = "from_wide" => encode_wide(bytes) = wide

\* from_wide has been given a low surrogate followed by a high surrogate
C1_Witness ==
    /\ op = "from_wide"
    /\ wide = <<\hDCA9, \hD83D>>
    /\ bytes = <<\hED, \hB2, \hA9, \hED, \hA0, \hBD>>

\* C2: for every string an owned buffer holds, from_wide of its encode_wide
\* code units has exactly the same bytes.
C2_EncodeWideFromWide == from_wide(encode_wide(bytes)) = bytes

\* the buffer holds an unpaired surrogate, a merged pair and UTF-8 text
C2_Witness ==
    /\ op = "push_wtf8"
    /\ bytes = <<\h61, \hED, \hB2, \hA9, \hF0, \h9F, \h92, \hA9>>

\* C3: push_wtf8 merge law.  When A ends in a high surrogate and B begins
\* with a low surrogate, A's last 3 bytes are replaced by the 4-byte encoding
\* of the pair's scalar, followed by the rest of B; otherwise A is unchanged
\* and B follows it; B's edge surrogates are appended in 3-byte form.
C3_MergeLaw ==
    op = "push_wtf8" =>
        IF EndsInHigh(prev) /\ StartsWithLow(other)
        THEN bytes = Slice(prev, 0, Len(prev) - 3)
                     \o Scalar4(PairScalar(LastHighUnit(prev), FirstLowUnit(other)))
                     \o Slice(CanonicalContent(other), 3, Len(other))
        ELSE bytes = prev \o CanonicalContent(other)

\* a buffer ending in a high surrogate was given a view that begins with a
\* split low surrogate and ends in a split high surrogate
C3_Witness ==
    /\ op = "push_wtf8"
    /\ EndsInHigh(prev)
    /\ StartsWithSplitLow(other)
    /\ EndsInSplitHigh(other)
    /\ Len(bytes) = Len(prev) + Len(other) - 2

\* C4: push_wtf8 is concatenation of ill-formed UTF-16: the code units of the
\* buffer after the push are those before it followed by those of the view.
C4_PushIsWideConcat ==
    op = "push_wtf8" => encode_wide(bytes) = encode_wide(prev) \o encode_wide(other)

\* a view with both edges in split form was appended to a non-empty buffer
C4_Witness ==
    /\ op = "push_wtf8"
    /\ prev # <<>>
    /\ StartsWithSplitLow(other)
    /\ EndsInSplitHigh(other)
    /\ Len(encode_wide(bytes)) >= 3

\* C5: after any sequence of operations the owned buffer is canonical: it
\* does not start with a continuation byte and no lead byte >= 0xF0 sits 3
\* bytes before its end.
C5_BufferCanonical == ~StartsWithSplitLow(bytes) /\ ~EndsInSplitHigh(bytes)

\* a view with both edges in split form has been pushed
C5_Witness ==
    /\ op = "push_wtf8"
    /\ StartsWithSplitLow(other)
    /\ EndsInSplitHigh(other)
    /\ Len(bytes) >= 6

\* C6: after any sequence of operations the owned buffer never holds the
\* 3-byte encoding of a high surrogate immediately followed by that of a low
\* surrogate.
C6_NoSurrogatePair ==
    \A i \in 1..Len(bytes) :
        ~(/\ i + 5 <= Len(bytes)
          /\ bytes[i] = \hED /\ bytes[i + 1] >= \hA0 /\ bytes[i + 1] <= \hAF
          /\ bytes[i + 3] = \hED /\ bytes[i + 4] >= \hB0)

\* a buffer ending in a high surrogate was given a view beginning with a low
\* surrogate in 3-byte form
C6_Witness ==
    /\ op = "push_wtf8"
    /\ EndsInCanonicalHigh(prev)
    /\ StartsWithCanonicalLow(other)

\* C7: two views compare equal exactly when their canonical content is the
\* same, and then feed the same bytes to the hasher, as does the owned buffer
\* holding the canonical bytes.
C7_CanonicalEquivalence ==
    op = "eq" =>
        /\ Wtf8_eq(other, res) <=> (CanonicalContent(other) = CanonicalContent(res))
        /\ Wtf8_eq(other, res) => Wtf8_hash(other) = Wtf8_hash(res)
        /\ Wtf8_eq(other, from_box(into_box(other)))
        /\ Wtf8_hash(other) = Wtf8Buf_hash(from_box(into_box(other)))

\* a view with both edges in split form was compared with the same content
\* in 3-byte form
C7_Witness ==
    /\ op = "eq"
    /\ StartsWithSplitLow(other)
    /\ EndsInSplitHigh(other)
    /\ other # res
    /\ res = CanonicalContent(other)

\* an offset at which no slice may start or end
IllegalOffset(s, i) ==
    classify_index(s, i) \in {Interior, FourByteSeq1, FourByteSeq3, OutOfBounds}

C9_Truncate ==
    op = "truncate" =>
        /\ IsBoundary(prev, args[1])
               => ~panicked /\ bytes = Slice(prev, 0, args[1])
        /\ IsMidpoint(prev, args[1])
               => /\ ~panicked
                  /\ Len(bytes) = args[1] + 1
                  /\ bytes = Slice(prev, 0, args[1] - 2)
                             \o Surrogate3(LastHighUnit(Slice(prev, 0, args[1] + 1)))

\* a buffer was truncated at the midpoint of a 4-byte sequence that follows
\* other text
C9_Witness ==
    /\ op = "truncate"
    /\ args[1] > 2
    /\ IsMidpoint(prev, args[1])
    /\ EndsInCanonicalHigh(bytes)

\* C10: truncate(new_len) panics and leaves the buffer as it was when new_len
\* is beyond the length, inside a 2- or 3-byte sequence, or at byte 1 or 3 of
\* a 4-byte sequence.
C10_TruncatePanics ==
    op = "truncate" /\ ~IsBoundary(prev, args[1]) /\ ~IsMidpoint(prev, args[1])
        => panicked /\ bytes = prev

\* truncate was given byte 3 of a 4-byte sequence
C10_Witness ==
    /\ op = "truncate"
    /\ args[1] >= 3
    /\ args[1] < Len(prev)
    /\ prev[args[1] - 2] >= \hF0
    /\ panicked

----------------------------------------------------------------------------
(* Slicing at legal offsets.                                               *)

\* a legal offset: a code point boundary or the midpoint of a 4-byte sequence
IsLegal(s, i) == IsBoundary(s, i) \/ IsMidpoint(s, i)

\* where a slice starts and ends for a legal endpoint i
StartAt(s, i) == IF IsMidpoint(s, i) THEN i - 1 ELSE i
EndAt(s, i) == IF IsMidpoint(s, i) THEN i + 1 ELSE i

\* C11: a slice with legal endpoints returns the raw sub-range of the source,
\* starting one byte before a begin at the midpoint of a 4-byte sequence and
\* ending one byte after an end at such a midpoint; boundary endpoints are
\* used unchanged.  Stated for every begin <= end, begin = end included.
C11_MidpointSlice ==
    /\ op = "index_range" /\ args[1] <= args[2]
         /\ IsLegal(other, args[1]) /\ IsLegal(other, args[2])
           => /\ ~panicked
              /\ res = Slice(other, StartAt(other, args[1]), EndAt(other, args[2]))
    /\ op = "index_range_from" /\ IsLegal(other, args[1])
           => ~panicked /\ res = Slice(other, StartAt(other, args[1]), Len(other))
    /\ op = "index_range_to" /\ IsLegal(other, args[1])
           => ~panicked /\ res = Slice(other, 0, EndAt(other, args[1]))

\* C11, amended: the same for begin < end; s[i..i] is the empty view at every
\* legal offset i, the midpoint of a 4-byte sequence included.
C11_MidpointSliceNonEmpty ==
    /\ op = "index_range" /\ args[1] < args[2]
         /\ IsLegal(other, args[1]) /\ IsLegal(other, args[2])
           => /\ ~panicked
              /\ res = Slice(other, StartAt(other, args[1]), EndAt(other, args[2]))
    /\ op = "index_range" /\ args[1] = args[2] /\ IsLegal(other, args[1])
           => ~panicked /\ res = <<>>
    /\ op = "index_range_from" /\ IsLegal(other, args[1])
           => ~panicked /\ res = Slice(other, StartAt(other, args[1]), Len(other))
    /\ op = "index_range_to" /\ IsLegal(other, args[1])
           => ~panicked /\ res = Slice(other, 0, EndAt(other, args[1]))

\* a slice from the midpoint of one 4-byte sequence to the midpoint of the
\* next returned a view with both edges in split form
C11_Witness ==
    /\ op = "index_range"
    /\ args[1] < args[2]
    /\ IsMidpoint(other, args[1])
    /\ IsMidpoint(other, args[2])
    /\ ~panicked
    /\ Len(res) = args[2] - args[1] + 2
    /\ StartsWithSplitLow(res)
    /\ EndsInSplitHigh(res)

\* C12: for an owned buffer s and a legal offset i of s, pushing s[..i] and
\* then s[i..] onto an empty buffer with push_wtf8 gives the bytes of s.
C12_SliceRejoin ==
    op = "rejoin" /\ IsLegal(other, args[1]) => ~panicked /\ bytes = other

\* a buffer was cut at the midpoint of a 4-byte sequence, both halves had a
\* split edge, and the sequence was rebuilt
C12_Witness ==
    /\ op = "rejoin"
    /\ IsMidpoint(other, args[1])
    /\ EndsInSplitHigh(prev)
    /\ StartsWithSplitLow(res)
    /\ Len(prev) > 3
    /\ Len(res) > 3
    /\ bytes = other

----------------------------------------------------------------------------
(* Conversions to UTF-8.                                                   *)

\* a surrogate is encoded in the 3 bytes of s from the p-th on: ED A0..BF xx
\* anywhere, 3 continuation bytes at the start, or F0..FF and 2 continuation
\* bytes at the end
IsSurrogateAt(s, p) ==
    /\ p >= 1
    /\ p + 2 <= Len(s)
    /\ \/ s[p] = \hED /\ s[p + 1] >= \hA0
       \/ p = 1 /\ IsCont(s[1])
       \/ p = Len(s) - 2 /\ s[p] >= \hF0

SurrogatesOf(s) == {p \in 1..Len(s) : IsSurrogateAt(s, p)}

\* the positions of s where U+FFFD (EF BF BD) is encoded
ReplacementsOf(s) ==
    {p \in 1..Len(s) : p + 2 <= Len(s) /\ s[p] = \hEF /\ s[p + 1] = \hBF /\ s[p + 2] = \hBD}

\* s with the 3 bytes of every surrogate replaced by EF BF BD
Lossy(s) ==
    [k \in 1..Len(s) |->
        IF \E p \in SurrogatesOf(s) : p <= k /\ k <= p + 2
        THEN LET p == CHOOSE q \in SurrogatesOf(s) : q <= k /\ k <= q + 2
             IN  <<\hEF, \hBF, \hBD>>[k - p + 1]
        ELSE s[k]]

\* C13: into_string returns Ok exactly when the buffer holds no surrogate,
\* and the String of Ok or the buffer of Err has exactly the bytes of the
\* input.
C13_IntoString ==
    op = "into_string" => /\ ok <=> SurrogatesOf(prev) = {}
                          /\ res = prev
                          /\ ~panicked

\* into_string returned Err for a buffer with a surrogate after other text
C13_Witness ==
    /\ op = "into_string"
    /\ ~ok
    /\ Len(prev) > 3
    /\ IsSurrogateAt(prev, Len(prev) - 2)
    /\ res = prev

\* C14: the lossy conversions do not fail and return the input with the 3
\* bytes of each surrogate replaced by EF BF BD and every other byte kept:
\* the length is the same and there is one more U+FFFD per surrogate.
C14_Lossy ==
    LET input == IF op = "into_string_lossy" THEN prev ELSE other IN
    op \in {"into_string_lossy", "to_string_lossy"} =>
        /\ ~panicked
        /\ res = Lossy(input)
        /\ Len(res) = Len(input)
        /\ SurrogatesOf(res) = {}
        /\ Cardinality(ReplacementsOf(res))
               = Cardinality(ReplacementsOf(input)) + Cardinality(SurrogatesOf(input))

\* into_string_lossy replaced two surrogates of a buffer
C14_Witness ==
    /\ op = "into_string_lossy"
    /\ Cardinality(SurrogatesOf(prev)) = 2
    /\ Cardinality(ReplacementsOf(res)) = 2
    /\ Len(res) > 6

\* C15: canonicalize_in_place applied twice to a view gives the same bytes
\* as applied once.  from_box(into_box(v)) holds canonicalize_in_place(v).
C15_CanonicalizeIdempotent ==
    op = "from_box" => /\ bytes = canonicalize_in_place(other)
                       /\ canonicalize_in_place(bytes) = bytes

\* a view with both edges in split form was canonicalized
C15_Witness ==
    /\ op = "from_box"
    /\ StartsWithSplitLow(other)
    /\ EndsInSplitHigh(other)
    /\ Len(other) >= 6
    /\ bytes # other
    /\ StartsWithCanonicalLow(bytes)
    /\ EndsInCanonicalHigh(bytes)

----------------------------------------------------------------------------
(* The surrogate codec.                                                    *)

\* C16: to_high_surrogate returns a surrogate exactly for the windows
\* 0xEDA000..=0xEDAFFF and 0xF00000..=0xFFFFFF, to_low_surrogate exactly for
\* the windows 0xEDB000..=0xEDBFFF and 0x800000..=0xBFFFFF; every other
\* window gives None.
C16_SurrogateRanges ==
    LET w == args[1]
        returned == ~panicked /\ res # <<0>>
    IN  /\ op = "to_high_surrogate" =>
               (returned <=> \/ w >= \hEDA000 /\ w <= \hEDAFFF
                             \/ w >= \hF00000 /\ w <= \hFFFFFF)
        /\ op = "to_low_surrogate" =>
               (returned <=> \/ w >= \hEDB000 /\ w <= \hEDBFFF
                             \/ w >= \h800000 /\ w <= \hBFFFFF)

\* the UTF-16 code unit of a HighSurrogate or LowSurrogate value, the low two
\* bytes 10xxxxxx 10yyyyyy of ED xx yy
UnitOf(v) == \hD000 + (((v \div 256) - 128) * 64) + ((v % 256) - 128)

\* C17: for a high surrogate h and a low surrogate l, decode_surrogate_pair
\* returns the 4-byte UTF-8 encoding of 0x10000 + ((h - 0xD800) << 10) +
\* (l - 0xDC00); 0xD83D with 0xDCA9 gives F0 9F 92 A9.
C17_DecodeSurrogatePair ==
    op = "decode_surrogate_pair" =>
        /\ ~panicked
        /\ res = Scalar4(PairScalar(UnitOf(args[1]), UnitOf(args[2])))
        /\ (args = <<\hA0BD, \hB2A9>> => res = <<\hF0, \h9F, \h92, \hA9>>)

\* U+D83D and U+DCA9 were paired
C17_Witness ==
    /\ op = "decode_surrogate_pair"
    /\ UnitOf(args[1]) = \hD83D
    /\ UnitOf(args[2]) = \hDCA9
    /\ res = <<\hF0, \h9F, \h92, \hA9>>

----------------------------------------------------------------------------
(* The encode_wide iterator.                                               *)

\* the number of code units of the view s: one for each code point and each
\* split surrogate, two for each 4-byte sequence
UnitCount(s) ==
    Cardinality({p \in 1..Len(s) : ~IsCont(s[p])})
    + Cardinality({p \in 1..Len(s) : s[p] >= \hF0 /\ p + 3 <= Len(s)})
    + (IF StartsWithSplitLow(s) THEN 1 ELSE 0)

\* C18: at every point of an encode_wide iteration, between the two halves
\* of a surrogate pair included, size_hint reports ceil(remaining_bytes / 3)
\* and remaining_bytes, and the number of code units still to be yielded
\* lies between the two.
C18_SizeHint ==
    op \in {"encode_wide", "next"} =>
        LET hint == EncodeWide_size_hint(res)
            remaining == UnitCount(other) - Len(wide)
        IN  /\ hint[1] * 3 >= Len(res)
            /\ hint[1] * 3 < Len(res) + 3
            /\ hint[2] = Len(res)
            /\ hint[1] <= remaining
            /\ remaining <= hint[2]

----------------------------------------------------------------------------
(* The ReplaceWith cursor state machine.                                   *)

\* no element of h from offset from up to offset upto matches the pattern
NoMatchIn(h, from, upto) == \A k \in (from + 1)..upto : h[k] # 1

\* C19: a next() of ReplaceWith goes from HasNext to Match, emitting the gap
\* before the match it found, or from HasNext to Finished, emitting the gap
\* up to the end of the haystack when there is no further match or the count
\* is exhausted; from Match to HasNext just past the match, emitting the
\* replacement; and from Finished to Finished, returning None without
\* consulting the searcher.
C19_ReplaceTransitions ==
    [][op' = "replace_next" =>
          /\ it.state = "HasNext" =>
                \/ /\ it'.state = "Match"
                   /\ it.count # 0
                   /\ it.start <= it'.start
                   /\ it'.end = it'.start + 1
                   /\ it'.end <= Len(other)
                   /\ other[it'.end] = 1
                   /\ NoMatchIn(other, it.start, it'.start)
                   /\ ok'
                   /\ res' = Slice(other, it.start, it'.start)
                \/ /\ it'.state = "Finished"
                   /\ it.count = 0 \/ NoMatchIn(other, it.start, Len(other))
                   /\ ok'
                   /\ res' = Slice(other, it.start, Len(other))
          /\ it.state = "Match" =>
                /\ it'.state = "HasNext"
                /\ it'.start = it.end
                /\ ok'
                /\ res' = <<0>>
          /\ it.state = "Finished" =>
                /\ it' = it
                /\ ~ok'
                /\ res' = <<>>
          /\ it.state \in {"HasNext", "Match", "Finished"}
    ]_vars

\* after two matches were replaced the iterator finished, and a later next()
\* returned None
C19_Witness ==
    /\ op = "replace_next"
    /\ it.state = "Finished"
    /\ it.consulted >= 3
    /\ ~ok

----------------------------------------------------------------------------
(* push_wtf8 on bytes that need not be canonical.                          *)

\* no split-form surrogate at either edge
IsCanonical(s) == ~StartsWithSplitLow(s) /\ ~EndsInSplitHigh(s)

----------------------------------------------------------------------------
(* The index classifier.                                                   *)

\* offset i of s is k bytes after the lead byte of a 4-byte sequence that lies
\* wholly within s
InFourByteSeq(s, i, k) == i - k >= 0 /\ i - k + 4 <= Len(s) /\ s[i - k + 1] >= \hF0

\* offset i lies within s and holds a continuation byte
HoldsCont(s, i) == i > 0 /\ i < Len(s) /\ IsCont(s[i + 1])

\* C21: on a well-formed string classify_index gives CharBoundary at offset 0
\* and at the length, OutOfBounds beyond the length, CharBoundary where an
\* ASCII or lead byte is, FourByteSeq1, FourByteSeq2 and FourByteSeq3 at the
\* 1st, 2nd and 3rd continuation byte of a complete 4-byte sequence, and
\* Interior at every other continuation byte.
C21_ClassifyIndex ==
    op = "classify_index" =>
        LET s == other
            i == args[1]
            ty == res[1]
        IN  /\ i = 0 \/ i = Len(s) => ty = CharBoundary
            /\ i > Len(s) => ty = OutOfBounds
            /\ i > 0 /\ i < Len(s) /\ ~IsCont(s[i + 1]) => ty = CharBoundary
            /\ \A k \in 1..3 : HoldsCont(s, i) /\ InFourByteSeq(s, i, k) => ty = k
            /\ HoldsCont(s, i) /\ (\A k \in 1..3 : ~InFourByteSeq(s, i, k))
                   => ty = Interior
            /\ FourByteSeq1 = 1 /\ FourByteSeq2 = 2 /\ FourByteSeq3 = 3

\* the last byte of a view that ends in a split-form high surrogate after
\* other text was classified Interior
C21_Witness ==
    /\ op = "classify_index"
    /\ Len(other) > 3
    /\ EndsInSplitHigh(other)
    /\ args[1] = Len(other) - 1
    /\ res = <<Interior>>

\* offset i is the 1st or 2nd continuation byte of a lead byte >= 0xF0 that has
\* only 2 bytes after it in s
InTruncatedTail(s, i) == EndsInSplitHigh(s) /\ (i = Len(s) - 2 \/ i = Len(s) - 1)

\* C22: in a buffer that ends with a lead byte >= 0xF0 and exactly 2
\* continuation bytes, classify_index gives CharBoundary at the offsets inside
\* that truncated tail.
C22_TailIsBoundary ==
    op = "classify_index" /\ InTruncatedTail(other, args[1]) => res = <<CharBoundary>>

\* C22, amended: classify_index gives Interior at the offsets inside the
\* truncated tail; the lower bound of its backward scan keeps it from taking
\* the tail's lead byte for that of a 4-byte sequence.
C22_TailIsInterior ==
    op = "classify_index" /\ InTruncatedTail(other, args[1]) => res = <<Interior>>

\* the first continuation byte of a view that is one split-form high
\* surrogate was classified Interior
C22_Witness ==
    /\ op = "classify_index"
    /\ Len(other) = 3
    /\ other[1] >= \hF0
    /\ args[1] = 1
    /\ res = <<Interior>>

----------------------------------------------------------------------------
(* Slicing with a reversed range.                                          *)

\* C23: s[begin..end] with begin > end always panics and returns no slice,
\* also when begin and end are both legal offsets of s.
C23_ReversedRangePanics ==
    op = "index_range" /\ args[1] > args[2] => panicked

----------------------------------------------------------------------------
(* Slicing and the UTF-16 code units.                                      *)

\* C24: for every view s and every legal offset i of s, the code units of
\* s[..i] followed by those of s[i..] are the code units of s; when i is the
\* midpoint of a 4-byte sequence the first part ends with the high surrogate
\* and the second part begins with the low surrogate of that sequence's
\* scalar.
C24_SliceCutsCodeUnits ==
    op = "cut" /\ IsLegal(other, args[1]) =>
        LET first == encode_wide(prev)
            second == encode_wide(res)
        IN  /\ ~panicked
            /\ first \o second = wide
            /\ IsMidpoint(other, args[1]) =>
                   /\ first # <<>>
                   /\ second # <<>>
                   /\ first[Len(first)] >= \hD800
                   /\ first[Len(first)] <= \hDBFF
                   /\ second[1] >= \hDC00
                   /\ second[1] <= \hDFFF
                   /\ Scalar4(PairScalar(first[Len(first)], second[1]))
                          = Slice(other, args[1] - 2, args[1] + 2)

\* a view beginning with a split-form low surrogate was cut at the midpoint
\* of the 4-byte sequence that follows it
C24_Witness ==
    /\ op = "cut"
    /\ StartsWithSplitLow(other)
    /\ IsMidpoint(other, args[1])
    /\ ~panicked
    /\ Len(encode_wide(prev)) = 2
    /\ Len(encode_wide(res)) = 1
    /\ Len(wide) = 3

----------------------------------------------------------------------------
(* Conversion to Box<Wtf8>, Arc<Wtf8> and Rc<Wtf8>.                        *)

\* C25: into_box, into_arc and into_rc of any view s, split edges included,
\* return a value of the same length as s with no split-form surrogate at
\* either edge, whose bytes are a low surrogate at the start of s in 3-byte
\* form, the middle bytes of s unchanged and a high surrogate at the end of s
\* in 3-byte form; the value compares equal to s, and s is not modified.
C25_FreezeCanonicalizes ==
    op \in {"into_box", "into_arc", "into_rc"} =>
        /\ ~panicked
        /\ Len(res) = Len(other)
        /\ ~StartsWithSplitLow(res)
        /\ ~EndsInSplitHigh(res)
        /\ res = CanonicalContent(other)
        /\ StartsWithSplitLow(other) =>
               /\ Slice(res, 0, 3) = Surrogate3(FirstLowUnit(other))
               /\ \A k \in 4..(Len(other) - (IF EndsInSplitHigh(other) THEN 3 ELSE 0)) :
                      res[k] = other[k]
        /\ EndsInSplitHigh(other) =>
               Slice(res, Len(res) - 3, Len(res)) = Surrogate3(LastHighUnit(other))
        /\ Wtf8_eq(res, other)
        /\ prev = other

\* into_arc was given a view with both edges in split form
C25_Witness ==
    /\ op = "into_arc"
    /\ StartsWithSplitLow(other)
    /\ EndsInSplitHigh(other)
    /\ Len(other) >= 6
    /\ res # other
    /\ prev = other
    /\ StartsWithCanonicalLow(res)
    /\ EndsInCanonicalHigh(res)

----------------------------------------------------------------------------
(* Ordering.                                                               *)

\* C26: for any two owned buffers a and b the ordering a.cmp(b) of Wtf8Buf,
\* which is the lexicographic order of their bytes, equals the ordering
\* a.as_slice().cmp(b.as_slice()) of their views.
C26_OrderingConsistent ==
    op = "cmp" => args[1] = args[2]

----------------------------------------------------------------------------
(* ReplaceWith: the count, and the items as a tiling of the haystack.      *)

\* the items of the history list that were made by the closure `to`
Replaced(list) == {j \in 1..Len(list) : list[j][1] = 1}

\* C27: with count = Some(n) the searcher's next_match is called at most n
\* times and the closure `to` at most n times; the item after the n-th
\* replacement is the rest of the haystack, unreplaced, and it is the last;
\* with count = Some(0) the one item yielded is the whole haystack.
C27_CountBoundsReplacements ==
    op = "replace_next" /\ wide[1] >= 0 =>
        LET n == wide[1]
            len == Len(args)
        IN  /\ it.consulted <= n
            /\ Cardinality(Replaced(args)) <= n
            /\ len <= 2 * n + 1
            /\ len = 2 * n + 1 =>
                   /\ it.state = "Finished"
                   /\ args[len] = <<0, IF n = 0 THEN 0 ELSE args[len - 1][3], Len(other)>>
                   /\ ok => res = Slice(other, args[len][2], Len(other))
            /\ len = 2 * n /\ n > 0 =>
                   /\ args[len][1] = 1
                   /\ it.state = "HasNext"
                   /\ it.count = 0
            /\ n = 0 =>
                   /\ args = <<(<<0, 0, Len(other)>>)>>
                   /\ ok => res = other

\* with count = Some(2) and a haystack of 3 matches the iterator finished
\* after 2 replacements, the third match lying in the final gap
C27_Witness ==
    /\ op = "replace_next"
    /\ wide = <<2>>
    /\ it.state = "Finished"
    /\ it.consulted = 2
    /\ Cardinality(Replaced(args)) = 2
    /\ Len(args) = 5
    /\ \E j \in (args[5][2] + 1)..args[5][3] : other[j] = 1

\* the elements of h that match the pattern
MatchesOf(h) == {j \in 1..Len(h) : h[j] = 1}

\* the ranges of the history list, each cut out of h, one after the other
RECURSIVE ConcatRanges(_, _)
ConcatRanges(h, list) ==
    IF list = <<>> THEN <<>>
    ELSE SubSeq(h, Head(list)[2] + 1, Head(list)[3]) \o ConcatRanges(h, Tail(list))

\* C28: with count = None and a searcher reporting k matches, ReplaceWith
\* yields gap, replacement, gap, ... in strict alternation, each item made of
\* the range of the haystack that begins where the one before ended, the
\* first at the front; the ranges passed to `to` are the matches and the gaps
\* hold none; when the iterator has finished there are 2k + 1 items, the
\* last a gap ending at the back, and the ranges joined are the haystack.
C28_ItemsTileHaystack ==
    op = "replace_next" /\ wide = <<-1>> =>
        LET len == Len(args)
            k == Cardinality(MatchesOf(other))
        IN  /\ \A j \in 1..len :
                   /\ args[j][1] = (j + 1) % 2
                   /\ args[j][2] = IF j = 1 THEN 0 ELSE args[j - 1][3]
                   /\ args[j][2] <= args[j][3]
                   /\ args[j][3] <= Len(other)
                   /\ args[j][1] = 1 =>
                          args[j][3] = args[j][2] + 1 /\ other[args[j][3]] = 1
                   /\ args[j][1] = 0 =>
                          \A i \in (args[j][2] + 1)..args[j][3] : other[i] # 1
            /\ len >= 1
            /\ len <= 2 * k + 1
            /\ it.state = "Finished" <=> len = 2 * k + 1
            /\ it.state = "Finished" =>
                   /\ args[len][3] = Len(other)
                   /\ ConcatRanges(other, args) = other
            /\ ~ok => it.state = "Finished"

\* the iterator finished on a haystack of 2 adjacent matches followed by
\* another element: 5 items, the gap between the matches empty
C28_Witness ==
    /\ op = "replace_next"
    /\ wide = <<-1>>
    /\ it.state = "Finished"
    /\ Len(args) = 5
    /\ args[3][2] = args[3][3]
    /\ args[5][2] < args[5][3]
    /\ ConcatRanges(other, args) = other

----------------------------------------------------------------------------
(* Split, SplitTerminator and SplitN.                                      *)

\* the offset just past the j-th match of h, counted from the front
PastMatch(h, j) ==
    CHOOSE p \in MatchesOf(h) : Cardinality({q \in MatchesOf(h) : q <= p}) = j

\* the range of the j-th piece of h: from just past match j - 1, or the front,
\* up to match j, or the back
Piece(h, j) ==
    <<IF j = 1 THEN 0 ELSE PastMatch(h, j - 1),
      IF j = Cardinality(MatchesOf(h)) + 1 THEN Len(h) ELSE PastMatch(h, j) - 1>>

\* C29: forward iteration of split over a haystack with k matches yields the
\* k + 1 pieces in order, the gap before each match and then the remainder
\* after the last; split_terminator yields the same pieces, leaving the
\* remainder out exactly when it is empty; every next() after the last piece
\* returns None, and finished is set once the remainder has been yielded.
C29_SplitPieces ==
    op = "split_next" =>
        LET k == Cardinality(MatchesOf(other))
            len == Len(args)
            remainder == Piece(other, k + 1)
            pieces == IF ~it.allow_trailing_empty /\ remainder[1] = remainder[2]
                      THEN k ELSE k + 1
        IN  /\ len <= pieces
            /\ \A j \in 1..len : args[j] = Piece(other, j)
            /\ ok => len >= 1 /\ res = SubSeq(other, args[len][1] + 1, args[len][2])
            /\ ~ok => len = pieces /\ res = <<>>
            /\ it.finished <=> len = k + 1
            /\ ~panicked

\* split_terminator over a haystack that ends with its second match has
\* yielded 2 pieces and then None, the empty remainder left out
C29_Witness ==
    /\ op = "split_next"
    /\ ~it.allow_trailing_empty
    /\ Cardinality(MatchesOf(other)) = 2
    /\ other[Len(other)] = 1
    /\ Len(args) = 2
    /\ ~ok
    /\ ~it.finished

\* C30: splitn(n, pat) yields at most n items; splitn(0) yields none; the
\* first n - 1 items are the pieces split yields; the n-th item, when it is
\* reached, is the rest of the haystack from just past match n - 1 to the
\* back, unsplit; every next() after the last item returns None.
C30_SplitN ==
    op = "splitn_next" =>
        LET n == wide[1]
            k == Cardinality(MatchesOf(other))
            len == Len(args)
        IN  /\ len <= n
            /\ len <= k + 1
            /\ \A j \in 1..len : j < n => args[j] = Piece(other, j)
            /\ len = n /\ n >= 1 =>
                   /\ args[n] = <<IF n = 1 THEN 0 ELSE PastMatch(other, n - 1), Len(other)>>
                   /\ it.count = 0
            /\ ok => len >= 1 /\ res = SubSeq(other, args[len][1] + 1, args[len][2])
            /\ ~ok => (len = n \/ len = k + 1) /\ res = <<>>
            /\ n = 0 => args = <<>> /\ ~ok
            /\ ~panicked

\* splitn(2) over a haystack of 3 matches has yielded the first piece and
\* then the rest with 2 matches in it, and then None
C30_Witness ==
    /\ op = "splitn_next"
    /\ wide = <<2>>
    /\ Cardinality(MatchesOf(other)) = 3
    /\ Len(args) = 2
    /\ args[2][2] = Len(other)
    /\ Cardinality({j \in MatchesOf(other) : j > args[2][1]}) = 2
    /\ ~ok

====
